---- MODULE Spec2Model ----
(***************************************************************************)
(* Model of the news tracker of src/app.py: a Streamlit script that is     *)
(* re-run from top to bottom on every user interaction and on every        *)
(* automatic refresh.  The session state (st.session_state) survives the   *)
(* re-runs; pc is the position of the current run in the script.           *)
(*                                                                         *)
(* Strings are sequences of one-character strings.  Time is in seconds;    *)
(* clock value 0 is a whole-minute boundary of the wall clock.             *)
(***************************************************************************)
EXTENDS Integers, Sequences, FiniteSets, TLC

VARIABLES
    search_terms,   \* st.session_state.search_terms : sequence of terms
    tracking_data,  \* st.session_state.tracking_data : term -> sequence of events
    articles,       \* st.session_state.articles : term -> sequence of articles
    last_update,    \* st.session_state.last_update
    is_tracking,    \* st.session_state.is_tracking
    start_time,     \* st.session_state.start_time
    now,            \* the wall clock read by datetime.now()
    pc,             \* position of the running script pass
    idx,            \* position of the loop of update_news in search_terms
    ret,            \* where the script continues once update_news returns
    time_diff,      \* the local time_diff of the main content block
    clicked,        \* the button whose click started the current pass
    notice,         \* the last st.success / st.error / exception shown
    hadArticles,    \* whether start_tracking discarded any stored article
    passes,         \* the number of script passes started so far
    inputs,         \* the three text inputs when "Set Search Terms" was clicked
    inserted        \* term -> its articles in the order they were appended

vars == <<search_terms, tracking_data, articles, last_update, is_tracking,
          start_time, now, pc, idx, ret, time_diff, clicked, notice,
          hadArticles, passes, inputs, inserted>>

session == <<search_terms, tracking_data, articles, last_update, is_tracking,
             start_time>>

-----------------------------------------------------------------------------
(* Bounds of the model. *)

\* the clock never passes MaxTime
MaxTime == 61

\* the script is run at most MaxPasses times
MaxPasses == 4

\* seconds an idle script waits for the next user interaction
Delays == {0, 1}

\* seconds one fetch of the three feed URLs takes
FetchDelays == {0, 60}

\* seconds a pass spends in time.sleep(1) and re-rendering: at least one
SleepDelays == {1, 60}

\* a fetch returns at most MaxFetched entries, over its three URLs
MaxFetched == 2

\* what the user types into each of the three text inputs: nothing or
\* blanks, or a term
Term1Inputs == { <<>>, <<"(">> }
Term2Inputs == { <<" ">>, <<"a">> }
Term3Inputs == { <<>>, <<".">> }

\* the terms that can ever be tracked: the non-blank inputs
Terms == { <<"(">>, <<"a">>, <<".">> }

\* the entries the feed can serve: E1 has no summary, E2 has an empty title
E1 == [title |-> <<"A">>, link |-> 1]
E2 == [title |-> <<>>, link |-> 2, summary |-> <<"b">>]
Entries == {E1, E2}

\* what feedparser.parse does for one URL: it raises, or returns entries
ParseRaises == [raises |-> TRUE, entries |-> <<>>]
UrlResponses ==
    {ParseRaises} \cup
    { [raises |-> FALSE, entries |-> es] : es \in {<<>>} \cup { <<e>> : e \in Entries } }

-----------------------------------------------------------------------------
(* Program constants. *)

\* line 315: "Update every minute"; line 191/194: freq='1min' in seconds
UpdateInterval == 60
OneMin == 60

-----------------------------------------------------------------------------
(* Strings and regular expressions. *)

\* str.strip() is empty: only whitespace
IsBlank(s) == \A i \in 1..Len(s) : s[i] = " "

Lower(c) == IF c = "A" THEN "a" ELSE IF c = "B" THEN "b" ELSE c

\* re.compile(pattern) raises re.error: over this alphabet, exactly the
\* patterns with an unterminated group
ReError(pattern) == \E j \in 1..Len(pattern) : pattern[j] = "("

\* one pattern character against one text character under re.IGNORECASE:
\* "." is any character, every other character of the alphabet is a literal
ReCharMatch(p, c) == p = "." \/ Lower(p) = Lower(c)

\* re.search(pattern, text, re.IGNORECASE) finds a match (pattern compiles)
ReSearch(pattern, text) ==
    \E i \in 1..(Len(text) - Len(pattern) + 1) :
        \A j \in 1..Len(pattern) : ReCharMatch(pattern[j], text[i + j - 1])

\* entry.get('summary', '')
EntrySummary(entry) ==
    IF "summary" \in DOMAIN entry THEN entry.summary ELSE <<>>

-----------------------------------------------------------------------------
Init ==
    /\ search_terms = <<>>
    /\ tracking_data = [t \in Terms |-> <<>>]
    /\ articles = [t \in Terms |-> <<>>]
    /\ now = 0
    /\ last_update = 0
    /\ is_tracking = FALSE
    /\ start_time = 0
    /\ pc = "sidebar"
    /\ idx = 0
    /\ ret = "none"
    /\ time_diff = 0
    /\ clicked = "none"
    /\ notice = "none"
    /\ hadArticles = FALSE
    /\ passes = 0
    /\ inputs = <<>>
    /\ inserted = [t \in Terms |-> <<>>]

-----------------------------------------------------------------------------
(* fetch_google_news and process_new_articles. *)

Range(s) == { s[i] : i \in DOMAIN s }

RECURSIVE ConcatEntries(_, _)
\* all_entries after the loop over the first n URLs: a URL whose parse
\* raises contributes nothing, the others append their entries in order
ConcatEntries(responses, n) ==
    IF n = 0 THEN <<>>
    ELSE ConcatEntries(responses, n - 1) \o
         (IF responses[n].raises THEN <<>> ELSE responses[n].entries)

\* fetch_google_news(search_term), given what the three URLs answer
fetch_google_news(responses) == ConcatEntries(responses, Len(responses))

\* one iteration of the loop of process_new_articles; acc holds the term's
\* article list, its tracking data and whether re.search has raised
ProcessEntry(acc, entry, search_term, existing_urls, current_time) ==
    IF acc.raised \/ entry.link \in existing_urls THEN acc
    ELSE IF ReError(search_term) THEN [acc EXCEPT !.raised = TRUE]
    ELSE IF \/ ReSearch(search_term, entry.title)
            \/ ReSearch(search_term, EntrySummary(entry))
         THEN [acc EXCEPT
                 !.articles = Append(@, [title |-> entry.title,
                                         link |-> entry.link,
                                         summary |-> EntrySummary(entry),
                                         timestamp |-> current_time]),
                 !.tracking_data = Append(@, [timestamp |-> current_time,
                                              count |-> 1])]
         ELSE acc

RECURSIVE ProcessEntries(_, _, _, _, _)
\* the loop of process_new_articles over the first n entries
ProcessEntries(entries, n, search_term, existing_urls, current_time) ==
    IF n = 0
    THEN [articles |-> articles[search_term],
          tracking_data |-> tracking_data[search_term],
          raised |-> FALSE]
    ELSE ProcessEntry(ProcessEntries(entries, n - 1, search_term,
                                     existing_urls, current_time),
                      entries[n], search_term, existing_urls, current_time)

\* process_new_articles(entries, search_term) run at clock current_time
process_new_articles(entries, search_term, current_time) ==
    LET existing_urls ==
            { articles[search_term][i].link : i \in DOMAIN articles[search_term] }
    IN  ProcessEntries(entries, Len(entries), search_term, existing_urls,
                       current_time)

-----------------------------------------------------------------------------
(* The sidebar: lines 265-305. *)

\* a pass of the script starts
BeginPass ==
    /\ pc = "sidebar"
    /\ passes < MaxPasses
    /\ passes' = passes + 1

\* line 275 with "if term" for "if term.strip()": inputs of blanks are kept
NonBlankInputs_unstripped(texts) == SelectSeq(texts, LAMBDA t : t # <<>>)

\* line 275: the non-blank text inputs, in order
NonBlankInputs(texts) == SelectSeq(texts, LAMBDA t : ~IsBlank(t))

\* update_news without line 150: last_update keeps its value
EnterUpdateNews_keeps_last_update(last_update_before, after) ==
    IF search_terms = <<>>
    THEN /\ last_update' = last_update_before
         /\ pc' = after
         /\ UNCHANGED <<idx, ret>>
    ELSE /\ last_update' = last_update_before
         /\ pc' = "update"
         /\ idx' = 1
         /\ ret' = after

\* entry of update_news (lines 147-150), called when last_update is
\* last_update_before and with the script to continue at position after:
\* without search terms it returns at once
EnterUpdateNews(last_update_before, after) ==
    IF search_terms = <<>>
    THEN /\ last_update' = last_update_before
         /\ pc' = after
         /\ UNCHANGED <<idx, ret>>
    ELSE /\ last_update' = now
         /\ pc' = "update"
         /\ idx' = 1
         /\ ret' = after

\* lines 275-280 followed by a reset of the data of every term that is no
\* longer a search term
SetSearchTerms_clears_dropped(term1, term2, term3) ==
    /\ BeginPass
    /\ LET terms == NonBlankInputs(<<term1, term2, term3>>)
       IN  IF terms # <<>>
           THEN /\ search_terms' = terms
                /\ notice' = "terms_set"
           ELSE /\ search_terms' = search_terms
                /\ notice' = "terms_error"
    /\ articles' = [t \in Terms |->
                       IF \E k \in DOMAIN search_terms' : search_terms'[k] = t
                       THEN articles[t] ELSE <<>>]
    /\ inserted' = [t \in Terms |->
                       IF \E k \in DOMAIN search_terms' : search_terms'[k] = t
                       THEN inserted[t] ELSE <<>>]
    /\ tracking_data' = [t \in Terms |->
                            IF \E k \in DOMAIN search_terms' : search_terms'[k] = t
                            THEN tracking_data[t] ELSE <<>>]
    /\ clicked' = "set"
    /\ inputs' = <<term1, term2, term3>>
    /\ pc' = "main"
    /\ UNCHANGED <<last_update, is_tracking, start_time, now, idx, ret,
                   time_diff, hadArticles>>

\* "Set Search Terms" clicked with the three text inputs filled in
SetSearchTerms(term1, term2, term3) ==
    /\ BeginPass
    /\ LET terms == NonBlankInputs(<<term1, term2, term3>>)
       IN  IF terms # <<>>
           THEN /\ search_terms' = terms
                /\ notice' = "terms_set"
           ELSE /\ search_terms' = search_terms
                /\ notice' = "terms_error"
    /\ clicked' = "set"
    /\ inputs' = <<term1, term2, term3>>
    /\ pc' = "main"
    /\ UNCHANGED <<tracking_data, articles, last_update, is_tracking,
                   start_time, now, idx, ret, time_diff, hadArticles,
                   inserted>>

\* start_tracking() without lines 162-164: the history is kept
StartTracking_keeps_history ==
    /\ BeginPass
    /\ search_terms # <<>>
    /\ ~is_tracking
    /\ is_tracking' = TRUE
    /\ start_time' = now
    /\ hadArticles' = (\E t \in Terms : articles[t] # <<>>)
    /\ EnterUpdateNews(now, "main")
    /\ clicked' = "start"
    /\ notice' = "started"
    /\ UNCHANGED <<search_terms, tracking_data, articles, now, time_diff,
                   inputs, inserted>>

\* start_tracking() without line 164: the articles are kept
StartTracking_keeps_articles ==
    /\ BeginPass
    /\ search_terms # <<>>
    /\ ~is_tracking
    /\ is_tracking' = TRUE
    /\ start_time' = now
    /\ tracking_data' = [t \in Terms |-> <<>>]
    /\ hadArticles' = (\E t \in Terms : articles[t] # <<>>)
    /\ EnterUpdateNews(now, "main")
    /\ clicked' = "start"
    /\ notice' = "started"
    /\ UNCHANGED <<search_terms, articles, now, time_diff, inputs, inserted>>

\* start_tracking() without line 163: the mention events are kept
StartTracking_keeps_events ==
    /\ BeginPass
    /\ search_terms # <<>>
    /\ ~is_tracking
    /\ is_tracking' = TRUE
    /\ start_time' = now
    /\ articles' = [t \in Terms |-> <<>>]
    /\ inserted' = [t \in Terms |-> <<>>]
    /\ hadArticles' = (\E t \in Terms : articles[t] # <<>>)
    /\ EnterUpdateNews(now, "main")
    /\ clicked' = "start"
    /\ notice' = "started"
    /\ UNCHANGED <<search_terms, tracking_data, now, time_diff, inputs>>

\* "Start Tracking" clicked: start_tracking() up to the call of update_news
StartTracking ==
    /\ BeginPass
    /\ search_terms # <<>>
    /\ ~is_tracking
    /\ is_tracking' = TRUE
    /\ start_time' = now
    /\ tracking_data' = [t \in Terms |-> <<>>]
    /\ articles' = [t \in Terms |-> <<>>]
    /\ inserted' = [t \in Terms |-> <<>>]
    /\ hadArticles' = (\E t \in Terms : articles[t] # <<>>)
    /\ EnterUpdateNews(now, "main")
    /\ clicked' = "start"
    /\ notice' = "started"
    /\ UNCHANGED <<search_terms, now, time_diff, inputs>>

\* stop_tracking() that also drops the mention events
StopTracking_clears_events ==
    /\ BeginPass
    /\ search_terms # <<>>
    /\ is_tracking
    /\ is_tracking' = FALSE
    /\ tracking_data' = [t \in Terms |-> <<>>]
    /\ clicked' = "stop"
    /\ notice' = "stopped"
    /\ pc' = "main"
    /\ UNCHANGED <<search_terms, articles, last_update, start_time, now, idx,
                   ret, time_diff, hadArticles, inputs, inserted>>

\* "Stop Tracking" clicked: stop_tracking()
StopTracking ==
    /\ BeginPass
    /\ search_terms # <<>>
    /\ is_tracking
    /\ is_tracking' = FALSE
    /\ clicked' = "stop"
    /\ notice' = "stopped"
    /\ pc' = "main"
    /\ UNCHANGED <<search_terms, tracking_data, articles, last_update,
                   start_time, now, idx, ret, time_diff, hadArticles, inputs,
                   inserted>>

\* a pass that no button click started (automatic rerun, edited input)
NoClick ==
    /\ BeginPass
    /\ clicked' = "none"
    /\ notice' = "none"
    /\ pc' = "main"
    /\ UNCHANGED <<session, now, idx, ret, time_diff, hadArticles, inputs,
                   inserted>>

-----------------------------------------------------------------------------
(* update_news: lines 152-154, one iteration of the loop per step. *)

\* the pass is over: the script waits d seconds for the next pass
EndPass(d) ==
    /\ now + d <= MaxTime
    /\ now' = now + d
    /\ pc' = "sidebar"
    /\ idx' = 0
    /\ ret' = "none"
    /\ time_diff' = 0
    /\ hadArticles' = FALSE
    /\ inputs' = <<>>

\* the term at position idx is fetched, which takes d seconds, and its
\* entries are processed; an exception of process_new_articles is caught
\* nowhere and ends the pass
UpdateNewsStep ==
    /\ pc = "update"
    /\ \E d \in FetchDelays, r1, r2, r3 \in UrlResponses :
        LET term == search_terms[idx]
            entries == fetch_google_news(<<r1, r2, r3>>)
            result == process_new_articles(entries, term, now + d)
        IN  /\ now + d <= MaxTime
            /\ Len(entries) <= MaxFetched
            /\ articles' = [articles EXCEPT ![term] = result.articles]
            /\ inserted' =
                   [inserted EXCEPT ![term] =
                       @ \o SubSeq(result.articles, Len(articles[term]) + 1,
                                   Len(result.articles))]
            /\ tracking_data' =
                   [tracking_data EXCEPT ![term] = result.tracking_data]
            /\ IF result.raised
               THEN /\ notice' = "exception"
                    /\ clicked' = "none"
                    /\ now' = now + d
                    /\ pc' = "sidebar"
                    /\ idx' = 0
                    /\ ret' = "none"
                    /\ time_diff' = 0
                    /\ hadArticles' = FALSE
                    /\ inputs' = <<>>
               ELSE /\ now' = now + d
                    /\ IF idx < Len(search_terms)
                       THEN /\ idx' = idx + 1
                            /\ UNCHANGED <<pc, ret>>
                       ELSE /\ idx' = 0
                            /\ pc' = ret
                            /\ ret' = "none"
                    /\ UNCHANGED <<notice, clicked, time_diff, hadArticles,
                                   inputs>>
    /\ UNCHANGED <<search_terms, last_update, is_tracking, start_time, passes>>

-----------------------------------------------------------------------------
(* The main content: lines 308-373. *)

\* line 315 without the test of is_tracking
AutoUpdateCheck_ignores_tracking ==
    /\ pc = "main"
    /\ IF search_terms = <<>>
       THEN /\ \E d \in Delays : EndPass(d)
            /\ UNCHANGED <<session, clicked, notice>>
       ELSE /\ time_diff' = now - last_update
            /\ IF now - last_update >= UpdateInterval
               THEN EnterUpdateNews(last_update, "render")
               ELSE /\ pc' = "render"
                    /\ UNCHANGED <<last_update, idx, ret>>
            /\ UNCHANGED <<search_terms, tracking_data, articles, is_tracking,
                           start_time, now, clicked, notice, hadArticles,
                           inputs>>
    /\ UNCHANGED <<passes, inserted>>

\* line 315 without the test of time_diff
AutoUpdateCheck_ignores_interval ==
    /\ pc = "main"
    /\ IF search_terms = <<>>
       THEN /\ \E d \in Delays : EndPass(d)
            /\ UNCHANGED <<session, clicked, notice>>
       ELSE /\ time_diff' = now - last_update
            /\ IF is_tracking
               THEN EnterUpdateNews(last_update, "render")
               ELSE /\ pc' = "render"
                    /\ UNCHANGED <<last_update, idx, ret>>
            /\ UNCHANGED <<search_terms, tracking_data, articles, is_tracking,
                           start_time, now, clicked, notice, hadArticles,
                           inputs>>
    /\ UNCHANGED <<passes, inserted>>

\* lines 308-316: without search terms the pass shows a hint and ends;
\* otherwise the automatic update check
AutoUpdateCheck ==
    /\ pc = "main"
    /\ IF search_terms = <<>>
       THEN /\ \E d \in Delays : EndPass(d)
            /\ UNCHANGED <<session, clicked, notice>>
       ELSE /\ time_diff' = now - last_update
            /\ IF is_tracking /\ now - last_update >= UpdateInterval
               THEN EnterUpdateNews(last_update, "render")
               ELSE /\ pc' = "render"
                    /\ UNCHANGED <<last_update, idx, ret>>
            /\ UNCHANGED <<search_terms, tracking_data, articles, is_tracking,
                           start_time, now, clicked, notice, hadArticles,
                           inputs>>
    /\ UNCHANGED <<passes, inserted>>

\* a sort that is not stable: the article goes before the equally recent
InsertByRecency_unstable(sorted, article) ==
    LET k == Cardinality({ i \in DOMAIN sorted :
                             sorted[i].timestamp > article.timestamp })
    IN  SubSeq(sorted, 1, k) \o <<article>> \o SubSeq(sorted, k + 1, Len(sorted))

\* list.sort(key=timestamp, reverse=True) of one more article: it goes
\* behind every article that is at least as recent
InsertByRecency(sorted, article) ==
    LET k == Cardinality({ i \in DOMAIN sorted :
                             sorted[i].timestamp >= article.timestamp })
    IN  SubSeq(sorted, 1, k) \o <<article>> \o SubSeq(sorted, k + 1, Len(sorted))

RECURSIVE SortByRecency(_)
\* articles.sort(key=lambda x: x['timestamp'], reverse=True): stable
SortByRecency(list) ==
    IF list = <<>> THEN <<>>
    ELSE InsertByRecency(SortByRecency(SubSeq(list, 1, Len(list) - 1)),
                         list[Len(list)])

\* lines 318-366: chart and totals only read; the article tabs sort the
\* list of every current search term in place
Render ==
    /\ pc = "render"
    /\ articles' =
           IF \E t \in Terms : articles[t] # <<>>
           THEN [t \in Terms |-> IF t \in Range(search_terms)
                                 THEN SortByRecency(articles[t])
                                 ELSE articles[t]]
           ELSE articles
    /\ pc' = "refresh"
    /\ UNCHANGED <<search_terms, tracking_data, last_update, is_tracking,
                   start_time, now, idx, ret, time_diff, clicked, notice,
                   hadArticles, passes, inputs, inserted>>

\* lines 368-373: while tracking the pass sleeps and reruns the script;
\* otherwise the script ends and waits for the user
Refresh ==
    /\ pc = "refresh"
    /\ IF is_tracking
       THEN \E d \in SleepDelays : EndPass(d)
       ELSE \E d \in Delays : EndPass(d)
    /\ UNCHANGED <<session, clicked, notice, passes, inserted>>

Next ==
    \/ \E term1 \in Term1Inputs, term2 \in Term2Inputs, term3 \in Term3Inputs :
           SetSearchTerms(term1, term2, term3)
    \/ StartTracking
    \/ StopTracking
    \/ NoClick
    \/ UpdateNewsStep
    \/ AutoUpdateCheck
    \/ Render
    \/ Refresh

Spec == Init /\ [][Next]_vars

TypeOK ==
    /\ pc \in {"sidebar", "update", "main", "render", "refresh"}
    /\ now \in 0..MaxTime

-----------------------------------------------------------------------------
(* get_time_series_data: lines 173-198, read at clock now. *)

\* the bin of df.resample('1min') a timestamp falls in: its whole minute
MinuteBin(t) == (t \div OneMin) * OneMin

RECURSIVE BinSum(_, _, _)
\* df.resample('1min').sum() at one bin label: the counts of the first n
\* events that fall in that bin
BinSum(events, n, label) ==
    IF n = 0 THEN 0
    ELSE BinSum(events, n - 1, label) +
         (IF MinuteBin(events[n].timestamp) = label THEN events[n].count ELSE 0)

\* label is in the index of the resampled frame: a whole minute from the
\* bin of the earliest event to the bin of the latest
InResampledIndex(events, label) ==
    /\ label % OneMin = 0
    /\ \E i \in DOMAIN events : MinuteBin(events[i].timestamp) <= label
    /\ \E i \in DOMAIN events : MinuteBin(events[i].timestamp) >= label

\* a date range that leaves out its end
DateRange_end_exclusive(start, end) ==
    [k \in 1..((end - start + OneMin - 1) \div OneMin) |-> start + (k - 1) * OneMin]

\* pd.date_range(start=start_time, end=end_time, freq='1min')
DateRange(start, end) ==
    IF end < start THEN <<>>
    ELSE [k \in 1..((end - start) \div OneMin + 1) |-> start + (k - 1) * OneMin]

\* .reindex(full_range, fill_value=0): a label of full_range that is in
\* the resampled index keeps its sum, every other label gets 0
Reindex(events, full_range) ==
    [k \in DOMAIN full_range |->
        [timestamp |-> full_range[k],
         count |-> IF InResampledIndex(events, full_range[k])
                   THEN BinSum(events, Len(events), full_range[k])
                   ELSE 0]]

\* get_time_series_data without the early returns of lines 175-182
get_time_series_data_zero_filled(search_term) ==
    Reindex(tracking_data[search_term], DateRange(start_time, now))

\* get_time_series_data(search_term)
get_time_series_data(search_term) ==
    IF tracking_data[search_term] = <<>>
    THEN <<>>
    ELSE Reindex(tracking_data[search_term], DateRange(start_time, now))

\* get_total_mentions()[term]
get_total_mentions(term) == Len(articles[term])

\* line 370: the seconds to the next update that line 371 reports, from
\* the time_diff that line 313 computed before the update check
time_to_next_update == UpdateInterval - time_diff

-----------------------------------------------------------------------------
(* Properties. *)

TrackedTerms == Range(search_terms)

Links(term) == { articles[term][i].link : i \in DOMAIN articles[term] }

\* the bucket the aggregation contract assigns to a timestamp
Bucket(t) == start_time + ((t - start_time) \div OneMin) * OneMin

RECURSIVE SeriesTotal(_, _)
\* the sum of the counts of the first n buckets of a series
SeriesTotal(series, n) ==
    IF n = 0 THEN 0 ELSE SeriesTotal(series, n - 1) + series[n].count

\* the term occurs, compared case-insensitively, as a literal substring
LiteralIn(term, text) ==
    \E i \in 1..(Len(text) - Len(term) + 1) :
        \A j \in 1..Len(term) : Lower(term[j]) = Lower(text[i + j - 1])

\* C1: no two articles in the same term's store have the same link, also
\* when a link arrives twice inside one fetch result.
C1_LinksUnique ==
    \A t \in Terms : \A i, j \in DOMAIN articles[t] :
        i # j => articles[t][i].link # articles[t][j].link

\* C2 as written: while tracking, the time series of a tracked term is never
\* empty, it is all zero without events, and any two tracked terms have
\* series of the same length.
C2_SeriesNeverEmpty ==
    (pc = "render" /\ is_tracking) =>
        \A t, u \in TrackedTerms :
            /\ get_time_series_data(t) # <<>>
            /\ tracking_data[t] = <<>> =>
                   \A k \in DOMAIN get_time_series_data(t) :
                       get_time_series_data(t)[k].count = 0
            /\ Len(get_time_series_data(t)) = Len(get_time_series_data(u))

\* C2 as amended: the time series of a tracked term is empty exactly when the
\* term has no mention event, and any two tracked terms that both have an
\* event have series of the same length, however many events each has.
C2_SeriesEmptyIffNoEvents ==
    \A t, u \in TrackedTerms :
        /\ get_time_series_data(t) = <<>> <=> tracking_data[t] = <<>>
        /\ (tracking_data[t] # <<>> /\ tracking_data[u] # <<>>) =>
               Len(get_time_series_data(t)) = Len(get_time_series_data(u))

C2_Witness ==
    /\ pc = "render"
    /\ is_tracking
    /\ \E t, u, v \in TrackedTerms :
        /\ tracking_data[t] = <<>>
        /\ Len(tracking_data[u]) = 1
        /\ Len(tracking_data[v]) = 2

\* C3: every mention event is counted in the bucket
\* startTime + floor((t - startTime)/60)*60 of the term's time series, so the
\* bucket counts sum to the number of events of the term.
C3_EventsCounted ==
    \A t \in Terms :
        tracking_data[t] # <<>> =>
            LET events == tracking_data[t]
                series == get_time_series_data(t)
            IN  /\ \A i \in DOMAIN events :
                       \E k \in DOMAIN series :
                           /\ series[k].timestamp = Bucket(events[i].timestamp)
                           /\ series[k].count =
                                  Cardinality({ j \in DOMAIN events :
                                      Bucket(events[j].timestamp) =
                                      Bucket(events[i].timestamp) })
                /\ SeriesTotal(series, Len(series)) = Len(events)

\* the buckets of a series start at startTime, strictly increase and are
\* spaced by exactly 60 seconds
GridSpaced(series) ==
    /\ series[1].timestamp = start_time
    /\ \A k \in 1..(Len(series) - 1) :
           series[k + 1].timestamp = series[k].timestamp + 60

\* C4 as written: a non-empty time series has buckets startTime,
\* startTime+60, ... and ceil((now - startTime)/60) + 1 of them.
C4_CeilBuckets ==
    \A t \in Terms :
        get_time_series_data(t) # <<>> =>
            /\ GridSpaced(get_time_series_data(t))
            /\ Len(get_time_series_data(t)) =
                   (now - start_time + 59) \div 60 + 1

\* C4 as amended: a non-empty time series has buckets startTime,
\* startTime+60, ... and floor((now - startTime)/60) + 1 of them: the last
\* bucket is the last grid point that is not after now.
C4_FloorBuckets ==
    \A t \in Terms :
        get_time_series_data(t) # <<>> =>
            LET series == get_time_series_data(t)
            IN  /\ GridSpaced(series)
                /\ Len(series) = (now - start_time) \div 60 + 1
                /\ series[Len(series)].timestamp <= now
                /\ now < series[Len(series)].timestamp + 60

C4_Witness ==
    \E t \in Terms :
        /\ Len(get_time_series_data(t)) >= 2
        /\ (now - start_time) % 60 # 0

\* C5 as written: start() called in a session that has accumulated articles
\* leaves count() == 0 for every term when it returns.
C5_CountZeroAfterStart ==
    (pc = "main" /\ clicked = "start" /\ hadArticles) =>
        \A t \in Terms : get_total_mentions(t) = 0

\* C5 as amended: when start() returns, every article and mention event
\* stored is one its own immediate tick discovered (none is older than the
\* new startTime), and every term that is not tracked has count() == 0.
C5_OnlyFreshAfterStart ==
    (pc = "main" /\ clicked = "start") =>
        \A t \in Terms :
            /\ \A i \in DOMAIN articles[t] :
                   articles[t][i].timestamp >= start_time
            /\ \A i \in DOMAIN tracking_data[t] :
                   tracking_data[t][i].timestamp >= start_time
            /\ t \notin TrackedTerms =>
                   get_total_mentions(t) = 0 /\ tracking_data[t] = <<>>

C5_Witness ==
    /\ pc = "main"
    /\ clicked = "start"
    /\ hadArticles
    /\ \E t \in Terms : get_total_mentions(t) > 0
    /\ \E t \in TrackedTerms : get_total_mentions(t) = 0

\* C6: the automatic update check of a pass is a no-op while the session is
\* not tracking or has no search term: stores, events and last_update keep
\* their values and no fetch is started.
C6_IdleTickNoOp ==
    [][(pc = "main" /\ (~is_tracking \/ search_terms = <<>>)) =>
           /\ UNCHANGED <<articles, tracking_data, last_update>>
           /\ pc' # "update"]_vars

C6_Witness ==
    /\ pc = "render"
    /\ clicked = "stop"
    /\ ~is_tracking
    /\ now - last_update >= 60
    /\ \E t \in Terms : articles[t] # <<>>

\* C7: stop() sets is_tracking to false and changes nothing else of the
\* session.
C7_StopOnlyStops ==
    [][(pc = "sidebar" /\ clicked' = "stop") =>
           /\ ~is_tracking'
           /\ UNCHANGED <<articles, tracking_data, search_terms, start_time,
                          last_update>>]_vars

C7_Witness ==
    /\ pc = "main"
    /\ clicked = "stop"
    /\ ~is_tracking
    /\ \E t \in Terms : articles[t] # <<>> /\ tracking_data[t] # <<>>

\* C8: a failure while one tracked term is handled never escapes the tick.
C8_NoFailureEscapes == notice # "exception"

\* the positions of the text inputs that are not blank
NonBlankPositions(texts) ==
    { i \in DOMAIN texts : \E j \in DOMAIN texts[i] : texts[i][j] # " " }

C9_Bounded ==
    /\ Len(search_terms) <= 3
    /\ NonBlankPositions(search_terms) = DOMAIN search_terms

C9_SetStep ==
    (pc = "sidebar" /\ clicked' = "set") =>
        LET filled == NonBlankPositions(inputs')
        IN  IF filled = {}
            THEN search_terms' = search_terms /\ notice' = "terms_error"
            ELSE /\ notice' = "terms_set"
                 /\ Len(search_terms') = Cardinality(filled)
                 /\ \E f \in [DOMAIN search_terms' -> filled] :
                        /\ \A a, b \in DOMAIN f : a < b => f[a] < f[b]
                        /\ \A k \in DOMAIN f : search_terms'[k] = inputs'[f[k]]

\* C9: setting the search terms with 1 to 3 non-blank inputs replaces the
\* tracked terms by exactly those, in order; with no non-blank input it
\* fails and keeps the previous terms; at most 3 terms are ever tracked and
\* none is blank.
C9_ConfigureAtomic == []C9_Bounded /\ [][C9_SetStep]_vars

C9_Witness ==
    /\ pc = "main"
    /\ clicked = "set"
    /\ notice = "terms_error"
    /\ Len(search_terms) = 3

\* C10: an item is stored for a term only if the term occurs, compared
\* case-insensitively, as a literal substring of its title or summary.
C10_StoredOnlyIfLiteral ==
    \A t \in Terms : \A i \in DOMAIN articles[t] :
        \/ LiteralIn(t, articles[t][i].title)
        \/ LiteralIn(t, articles[t][i].summary)

\* C11: two terms configured, start() at T0 with a feed that returns one
\* matching item per term: each count is 1 and, read at T0, the time series
\* of the first term is the single bucket T0 with count 1.
C11_EndToEnd ==
    (/\ pc = "main"
     /\ clicked = "start"
     /\ Len(search_terms) = 2
     /\ now = start_time
     /\ \A k \in DOMAIN search_terms : Len(inserted[search_terms[k]]) = 1) =>
        /\ \A k \in DOMAIN search_terms :
               get_total_mentions(search_terms[k]) = 1
        /\ get_time_series_data(search_terms[1]) =
               <<[timestamp |-> start_time, count |-> 1]>>

\* max(0, 60 - elapsed)
SecondsUntilNextTick(elapsed) == IF 60 - elapsed < 0 THEN 0 ELSE 60 - elapsed

\* C12: the seconds to the next tick reported while tracking are
\* max(0, 60 - (now - lastUpdateTime)) for the lastUpdateTime in force, never
\* negative and never above 60, also in a pass in which a tick has just run.
C12_SecondsUntilNextTick ==
    (pc = "refresh" /\ is_tracking) =>
        /\ time_to_next_update = SecondsUntilNextTick(now - last_update)
        /\ time_to_next_update >= 0
        /\ time_to_next_update <= 60

\* C13: between one start() and the next, count(term) never decreases, and
\* it always equals the number of distinct links stored for the term.
C13_CountMonotoneDistinct ==
    /\ [](\A t \in Terms : get_total_mentions(t) = Cardinality(Links(t)))
    /\ [][~(pc = "sidebar" /\ clicked' = "start") =>
              \A t \in Terms : Len(articles'[t]) >= Len(articles[t])]_vars

Max(S) == CHOOSE m \in S : \A x \in S : x <= m

RECURSIVE ByRecency(_, _)
\* the articles of list with a timestamp in stamps, the most recent
\* timestamp first, those of one timestamp in the order of list
ByRecency(list, stamps) ==
    IF stamps = {} THEN <<>>
    ELSE SelectSeq(list, LAMBDA a : a.timestamp = Max(stamps)) \o
         ByRecency(list, stamps \ {Max(stamps)})

\* C14: the listing of a tracked term is every article appended for the
\* term, most recently discovered first, articles of one discovery time in
\* the order they were appended; nothing is added, removed or duplicated.
C14_ListingByRecency ==
    pc = "refresh" =>
        \A t \in TrackedTerms :
            articles[t] =
                ByRecency(inserted[t],
                          { inserted[t][i].timestamp : i \in DOMAIN inserted[t] })

C14_Witness ==
    /\ pc = "refresh"
    /\ \E t \in TrackedTerms :
        /\ Len(inserted[t]) >= 3
        /\ articles[t] # inserted[t]
        /\ articles[t][1].timestamp > articles[t][2].timestamp

\* C15: every stored article and mention event was discovered at or after
\* the current startTime and not after the current time.
C15_DiscoveredInRun ==
    \A t \in Terms :
        /\ \A i \in DOMAIN articles[t] :
               /\ start_time <= articles[t][i].timestamp
               /\ articles[t][i].timestamp <= now
        /\ \A i \in DOMAIN tracking_data[t] :
               /\ start_time <= tracking_data[t][i].timestamp
               /\ tracking_data[t][i].timestamp <= now

C15_Witness ==
    /\ hadArticles
    /\ pc = "render"
    /\ start_time > 0
    /\ \E t \in Terms :
        /\ \E i \in DOMAIN articles[t] : articles[t][i].timestamp = start_time
        /\ \E i \in DOMAIN tracking_data[t] :
               tracking_data[t][i].timestamp = start_time

\* C16: the mention events of a term correspond one-to-one to the articles
\* of its store: as many events as articles, each event with count 1, and
\* for every timestamp as many events as articles discovered then.
C16_EventPerArticle ==
    \A t \in Terms :
        /\ Len(tracking_data[t]) = Len(articles[t])
        /\ \A i \in DOMAIN tracking_data[t] : tracking_data[t][i].count = 1
        /\ \A s \in 0..now :
               Cardinality({ i \in DOMAIN tracking_data[t] :
                               tracking_data[t][i].timestamp = s }) =
               Cardinality({ i \in DOMAIN articles[t] :
                               articles[t][i].timestamp = s })

C16_Witness ==
    /\ is_tracking
    /\ \E t \in Terms :
        /\ Len(articles[t]) = 2
        /\ articles[t][1].timestamp > articles[t][2].timestamp
        /\ tracking_data[t][1].timestamp < tracking_data[t][2].timestamp

\* a tick begins / a tick ends without an exception
TickBegins == pc # "update" /\ pc' = "update"
TickCompletes == pc = "update" /\ pc' \in {"main", "render"}

\* C17 as stated: a tick sets last_update to the clock value read at its
\* end, so that after a completed tick no stored article is later than
\* last_update.
C17_LastUpdateAtEnd ==
    [][TickCompletes =>
           /\ last_update' = now'
           /\ \A t \in Terms : \A i \in DOMAIN articles'[t] :
                  articles'[t][i].timestamp <= last_update']_vars

\* C17: a tick that runs (session tracking, search terms non-empty) sets
\* last_update to the clock value read when it begins, before any term is
\* fetched and whether or not anything is found, and leaves it alone until
\* it ends; every article the tick stores is discovered at or after that
\* last_update.
C17_LastUpdateAtStart ==
    [][/\ TickBegins =>
              /\ is_tracking'
              /\ search_terms' # <<>>
              /\ now' = now
              /\ last_update' = now
       /\ pc = "update" =>
              /\ last_update' = last_update
              /\ \A t \in Terms :
                     \A i \in (Len(inserted[t]) + 1)..Len(inserted'[t]) :
                         inserted'[t][i].timestamp >= last_update]_vars

C17_Witness ==
    /\ pc = "main"
    /\ clicked = "start"
    /\ is_tracking
    /\ now > last_update
    /\ \E t \in Terms : \E i \in DOMAIN articles[t] :
           articles[t][i].timestamp > last_update

\* C18: a click on "Set Search Terms" changes only search_terms:
\* is_tracking, start_time, last_update, every article store and every
\* term's events keep their values; and the store and the events of a term
\* that is not a search term are changed by no step but a start.
C18_ConfigureFrame ==
    [][/\ (pc = "sidebar" /\ clicked' = "set") =>
              UNCHANGED <<is_tracking, start_time, last_update, articles,
                          tracking_data>>
       /\ ~(pc = "sidebar" /\ clicked' = "start") =>
              \A t \in Terms :
                  (\A k \in DOMAIN search_terms' : search_terms'[k] # t) =>
                      /\ articles'[t] = articles[t]
                      /\ tracking_data'[t] = tracking_data[t]]_vars

C18_Witness ==
    /\ pc = "render"
    /\ clicked = "set"
    /\ is_tracking
    /\ last_update > start_time
    /\ \E t \in Terms \ TrackedTerms :
           articles[t] # <<>> /\ tracking_data[t] # <<>>
    /\ \E t \in TrackedTerms :
           \E i \in DOMAIN articles[t] : articles[t][i].timestamp > start_time

\* C19 as stated: apart from the immediate tick of a start, a tick begins
\* only while tracking and 60 seconds or more after last_update, and never
\* in the pass of a start.
C19_NoSecondTickInStartPass ==
    [][TickBegins =>
           \/ pc = "sidebar" /\ clicked' = "start"
           \/ /\ pc = "main"
              /\ clicked # "start"
              /\ is_tracking
              /\ now - last_update >= UpdateInterval]_vars

\* C19: apart from the immediate tick of a start, a tick begins only while
\* tracking and 60 seconds or more after last_update, so a tick begins at
\* least 60 seconds after the tick before it began; the pass of a start
\* runs a second tick only when 60 seconds or more have passed since its
\* immediate tick began.
C19_TickOnlyWhenDue ==
    [][TickBegins =>
           \/ pc = "sidebar" /\ clicked' = "start"
           \/ /\ pc = "main"
              /\ is_tracking
              /\ now - last_update >= UpdateInterval
              /\ last_update' - last_update >= UpdateInterval]_vars

C19_Witness ==
    /\ pc = "update"
    /\ ret = "render"
    /\ clicked = "start"
    /\ last_update - start_time >= UpdateInterval

====
